---------------------------- MODULE Spec2Model ----------------------------
(***************************************************************************)
(* Model of Gradio-Conversation.py: the input sanitizer, the history       *)
(* manager, the attachment processor, the process-wide rate limiter and    *)
(* the predict generator that folds a streamed completion into the         *)
(* chatbot transcript.                                                     *)
(*                                                                         *)
(* Text is a sequence of one-character strings.  The Chinese literals of   *)
(* the source are written one token per character, each token being the    *)
(* pinyin of the character (SANY reads ASCII only); an emoji is one token  *)
(* per code point.  Lengths are therefore those of the Python strings.     *)
(***************************************************************************)
EXTENDS Integers, Sequences, FiniteSets, TLC

VARIABLES
    client,             \* module global `client`: TRUE iff OpenAI(...) was built
    now,                \* the wall clock, in seconds (time.time(), datetime.now())
    last_request_time,  \* module global of the rate limiter, in seconds
    chatbot,            \* the gr.Chatbot value: the last snapshot predict yielded
    pc,                 \* "idle" | "streaming" | "returned"
    branch,             \* the exit the running / last invocation of predict took
    invocations,        \* number of predict invocations started so far
    message,            \* predict's parameter `message`
    uploaded_file,      \* predict's parameter `uploaded_file`
    clean_message,      \* predict's local `clean_message`
    clean_history,      \* predict's local `clean_history`
    bot_response,       \* predict's local `bot_response`
    taken,              \* number of chunks the `for chunk in stream` loop took
    received,           \* the text deltas of those chunks, in arrival order
    yields,             \* snapshots yielded by the running / last invocation
    api_calls           \* calls of client.chat.completions.create it made

vars == <<client, now, last_request_time, chatbot, pc, branch, invocations,
          message, uploaded_file, clean_message, clean_history,
          bot_response, taken, received, yields, api_calls>>

---------------------------------------------------------------------------
(* Configuration.  The three limits are read from the environment          *)
(* (int(os.environ.get(...))), so the small values are configurations of   *)
(* the program, chosen to keep the truncation cases within reach; with a   *)
(* delay of two seconds, a clock read in whole seconds tells a call that   *)
(* comes sooner than the delay from one at the very instant of the last.   *)

MAX_MESSAGE_LENGTH == 3

MAX_HISTORY_LENGTH == 2

RATE_LIMIT_DELAY == 2

MAX_FILE_SIZE == 10 * 1024 * 1024

\* str(e)[:100] in the three except clauses
ERROR_DESCRIPTION_LENGTH == 100

(* Bounds of the model. *)

\* predict invocations in one session
MaxInvocations == 2

\* chunks one stream delivers
MaxStream == 2

\* length of the text handed to sanitize_input on its own
MaxTextLen == 5

\* length of the history handed to validate_history on its own
MaxHistoryLen == 4

---------------------------------------------------------------------------
(* Python sequence idioms. *)

Min(a, b) == IF a < b THEN a ELSE b

\* s[:n]
Take(s, n) == SubSeq(s, 1, Min(n, Len(s)))

\* s[n:]  (n >= 0)
Drop(s, n) == SubSeq(s, n + 1, Len(s))

\* s[-n:]  (s[-0:] is the whole of s)
LastN(s, n) == IF n = 0 \/ n >= Len(s) THEN s ELSE SubSeq(s, Len(s) - n + 1, Len(s))

\* s.startswith(p)
StartsWith(s, p) == Len(p) <= Len(s) /\ SubSeq(s, 1, Len(p)) = p

\* p in s
Contains(s, p) == \E i \in 1..(Len(s) - Len(p) + 1) : SubSeq(s, i, i + Len(p) - 1) = p

IsSpace(c) == c \in {" ", "\n"}

\* str.strip(): from the first to the last character that is not white space
Strip(s) ==
    IF \A i \in 1..Len(s) : IsSpace(s[i]) THEN <<>>
    ELSE SubSeq(s,
             CHOOSE i \in 1..Len(s) :
                 ~IsSpace(s[i]) /\ \A j \in 1..(i - 1) : IsSpace(s[j]),
             CHOOSE i \in 1..Len(s) :
                 ~IsSpace(s[i]) /\ \A j \in (i + 1)..Len(s) : IsSpace(s[j]))

\* html.escape(c) of one character (quote=True)
EscapeChar(c) ==
    CASE c = "&"  -> <<"&", "a", "m", "p", ";">>
      [] c = "<"  -> <<"&", "l", "t", ";">>
      [] c = ">"  -> <<"&", "g", "t", ";">>
      [] c = "\"" -> <<"&", "q", "u", "o", "t", ";">>
      [] c = "'"  -> <<"&", "#", "x", "2", "7", ";">>
      [] OTHER    -> <<c>>

\* html.escape(s): the escapes of its characters, in order (a text without
\* a character to escape is returned as it is; another is halved, which
\* keeps the evaluation shallow)
RECURSIVE html_escape(_)
html_escape(s) ==
    IF \A i \in 1..Len(s) : s[i] \notin {"&", "<", ">", "\"", "'"} THEN s
    ELSE IF Len(s) = 1 THEN EscapeChar(s[1])
    ELSE LET half == Len(s) \div 2
         IN  html_escape(SubSeq(s, 1, half)) \o html_escape(SubSeq(s, half + 1, Len(s)))

Digit(d) == CASE d = 0 -> "0" [] d = 1 -> "1" [] d = 2 -> "2" [] d = 3 -> "3"
              [] d = 4 -> "4" [] d = 5 -> "5" [] d = 6 -> "6" [] d = 7 -> "7"
              [] d = 8 -> "8" [] d = 9 -> "9"

\* str(n) for n >= 0
RECURSIVE Decimal(_)
Decimal(n) == IF n < 10 THEN <<Digit(n)>> ELSE Decimal(n \div 10) \o <<Digit(n % 10)>>

\* "%02d"
TwoDigits(n) == <<Digit((n \div 10) % 10), Digit(n % 10)>>

\* the truncation marker "..."
ELLIPSIS == <<".", ".", ".">>

---------------------------------------------------------------------------
(* Security helpers. *)

\* sanitize_input cutting a long text without appending the marker
SanitizeWithoutMarker(text) ==
    IF text = <<>>
    THEN <<>>
    ELSE Take(html_escape(Strip(text)), MAX_MESSAGE_LENGTH)

sanitize_input(text) ==
    IF text = <<>>
    THEN <<>>
    ELSE LET escaped == html_escape(Strip(text))
         IN  IF Len(escaped) > MAX_MESSAGE_LENGTH
             THEN Take(escaped, MAX_MESSAGE_LENGTH) \o ELLIPSIS
             ELSE escaped

\* isinstance(item, dict) and "role" in item and "content" in item
WellFormed(item) == "role" \in DOMAIN item /\ "content" \in DOMAIN item

\* the body of validate_history's loop for one item: [] or [cleaned item]
CleanItem(item) ==
    IF WellFormed(item)
    THEN LET clean_content == sanitize_input(item.content)
         IN  IF clean_content # <<>> \/ item.role = "assistant"
             THEN <<[role |-> item.role, content |-> clean_content]>>
             ELSE <<>>
    ELSE <<>>

RECURSIVE CleanAll(_)
CleanAll(h) == IF h = <<>> THEN <<>> ELSE CleanItem(Head(h)) \o CleanAll(Tail(h))

\* the window taken from the wrong end: history[:MAX_HISTORY_LENGTH]
WindowOldest(h) == Take(h, MAX_HISTORY_LENGTH)

\* history[-MAX_HISTORY_LENGTH:] when the history is longer than the limit
Window(h) == IF Len(h) > MAX_HISTORY_LENGTH THEN LastN(h, MAX_HISTORY_LENGTH) ELSE h

validate_history(h) == IF h = <<>> THEN <<>> ELSE CleanAll(Window(h))

---------------------------------------------------------------------------
(* Rate limiter: rate_limit_check() with current_time = now. *)

\* the clock at start-up: time.time() is far beyond the delay after the
\* initial last_request_time = 0
BootTime == 10 * RATE_LIMIT_DELAY

\* the clock is followed for one delay past start-up: a second call can come
\* at the instant of the first, sooner than the delay, or the delay later
LastTick == BootTime + RATE_LIMIT_DELAY

\* the comparison of rate_limit_check with <= for <
TooSoonInclusive(current_time, last) == current_time - last <= RATE_LIMIT_DELAY

\* the test of the early `return False`
TooSoon(current_time, last) == current_time - last < RATE_LIMIT_DELAY

\* rate_limit_check recording the time of rejected calls too
RateLimitStampAlways(current_time, last) == current_time

\* the value rate_limit_check leaves in last_request_time
RateLimitStamp(current_time, last) ==
    IF TooSoon(current_time, last) THEN last ELSE current_time

---------------------------------------------------------------------------
(* The string literals of the source, one token per character. *)

\* line 69
MSG_FILE_NOT_FOUND == <<"wen", "jian4", "bu", "cun", "zai4">>

\* line 74
MSG_TOO_LARGE_HEAD == <<"wen", "jian4", "guo", "da", " ", "(">>

\* line 74
MSG_TOO_LARGE_MID == <<"M", "B", ")", "fw,", "zui", "da", "zhi1", "chi", " ">>

\* line 74
MSG_TOO_LARGE_TAIL == <<"M", "B">>

\* line 110
MSG_UNSUPPORTED_TYPE ==
    <<"bu", "zhi1", "chi", "de", "wen", "jian4", "lei", "xing", ":", " ">>

\* line 113
MSG_PROCESSING_FAILED ==
    <<"wen", "jian4", "chu3", "li", "shi1", "bai", ":", " ">>

\* line 85
INFO_TEXT_HEAD == <<"U+1F4C4", " ", "wen", "jian4", ":", " ">>

\* line 85
INFO_TEXT_TAIL == <<" ", "b", "y", "t", "e", "s", ")">>

\* line 105
INFO_IMAGE_HEAD == <<"U+1F5BC", "U+FE0F", " ", "tu", "pian", ":", " ">>

\* line 107
DATA_URI_HEAD ==
    <<"d", "a", "t", "a", ":", "i", "m", "a", "g", "e", "/", "j", "p", "e",
      "g", ";", "b", "a", "s", "e", "6", "4", ",">>

\* line 294
DATA_IMAGE_PREFIX == <<"d", "a", "t", "a", ":", "i", "m", "a", "g", "e", "/">>

\* line 283
FAILED_MARK == <<"shi1", "bai">>

\* line 270
MSG_NO_CLIENT ==
    <<"cuo", "wu4", "fw:", "O", "p", "e", "n", "A", "I", " ", "ke", "hu",
      "duan", "wei", "cheng", "gong", "chu1", "shi3", "hua", "fw.", "qing",
      "jian3", "cha", " ", "A", "P", "I", " ", "mi", "yao", "he2", "wang",
      "luo", "lian", "jie", "fw.">>

\* line 275
MSG_RATE_LIMITED ==
    <<"qing", "qiu", "guo", "yu", "pin", "fan", "fw,", "qing", "shao", "hou",
      "zai4b", "shi4b", "fw.">>

\* line 284
MSG_FILE_ERROR_HEAD ==
    <<"wen", "jian4", "chu3", "li", "cuo", "wu4", ":", " ">>

\* line 290
MSG_EMPTY_INPUT ==
    <<"qing", "shu", "ru4", "xiao", "xi1", "huo", "shang", "chuan", "wen",
      "jian4", "fw.">>

\* line 300
IMAGE_NOTE_HEAD ==
    <<"\n", "\n", "[", "yi3", "shang", "chuan", "tu", "pian", ":", " ">>

\* line 302
IMAGE_ONLY_HEAD ==
    <<"wo", "shang", "chuan", "le", "yi1", "zhang", "tu", "pian", ":", " ">>

\* line 302
IMAGE_ONLY_TAIL ==
    <<"fw,", "qing", "gao", "su", "wo", "ru2", "he2b", "chu3", "li", "tu",
      "pian", "wen", "jian4", "fw.">>

\* line 306
FILE_CONTENT_HEAD ==
    <<"\n", "\n", "[", "wen", "jian4", "nei", "rong", "]", "\n">>

\* line 308
FILE_ONLY_HEAD ==
    <<"qing", "fen", "xi1b", "zhe", "ge", "wen", "jian4", ":", "\n", "\n">>

\* line 335
MSG_API_FAILED ==
    <<"A", "P", "I", " ", "diao", "yong", "shi1", "bai", ":", " ">>

\* line 366
MSG_STREAM_FAILED ==
    <<"liu", "shi4", "xiang", "ying", "chu3", "li", "shi1", "bai", ":", " ">>

\* line 123
STAMP_OPEN == <<"*", "*", "[">>

\* line 123
STAMP_USER == <<"]", " ", "nin", ":", "*", "*", " ">>

\* line 125
STAMP_AI == <<"]", " ", "A", "I", ":", "*", "*", " ">>

---------------------------------------------------------------------------
(* Attachment processor.  A file is what process_uploaded_file can observe  *)
(* of a path: [exists, size, name, raises, error, content, width, height].  *)
(* raises: open / read / Image.open / save raises an exception whose str()  *)
(* is error.  content: the decoded text of a text file.                     *)

SUPPORTED_TEXT_EXTENSIONS ==
    { <<".", "t", "x", "t">>, <<".", "m", "d">>, <<".", "p", "y">>,
      <<".", "j", "s">>, <<".", "h", "t", "m", "l">>, <<".", "c", "s", "s">>,
      <<".", "j", "s", "o", "n">>, <<".", "x", "m", "l">>, <<".", "c", "s", "v">> }

SUPPORTED_IMAGE_EXTENSIONS ==
    { <<".", "j", "p", "g">>, <<".", "j", "p", "e", "g">>, <<".", "p", "n", "g">>,
      <<".", "g", "i", "f">>, <<".", "b", "m", "p">>, <<".", "w", "e", "b", "p">> }

\* index of the last "." of s, 0 if none
LastDot(s) ==
    LET dots == {i \in 1..Len(s) : s[i] = "."}
    IN  IF dots = {} THEN 0 ELSE CHOOSE i \in dots : \A j \in dots : j <= i

\* os.path.splitext(name)[1]: from the last dot, leading dots not counted
SplitExt(s) ==
    LET d == LastDot(s)
    IN  IF d = 0 \/ (\A j \in 1..(d - 1) : s[j] = ".") THEN <<>> ELSE Drop(s, d - 1)

LowerChar(c) ==
    CASE c = "A" -> "a" [] c = "T" -> "t" [] c = "X" -> "x" [] OTHER -> c

\* str.lower() on the letters file names of the model hold
Lower(s) == [i \in 1..Len(s) |-> LowerChar(s[i])]

\* f"{x:.1f}" of x = bytes / 1024 / 1024
MegaBytes1f(bytes) ==
    LET tenths == (bytes * 10 + 524288) \div 1048576
    IN  Decimal(tenths \div 10) \o <<".">> \o <<Digit(tenths % 10)>>

\* the nearest integer to a / b, at least 1
RoundDiv(a, b) == LET r == (2 * a + b) \div (2 * b) IN IF r < 1 THEN 1 ELSE r

\* img.thumbnail((800, 800)): shrink to fit, keeping the aspect ratio
Thumbnail(w, h) ==
    IF w <= 800 /\ h <= 800 THEN <<w, h>>
    ELSE IF h >= w THEN <<RoundDiv(800 * w, h), 800>>
    ELSE <<800, RoundDiv(800 * h, w)>>

\* the base64 text of the re-encoded JPEG, as one token
Base64Payload == <<"b64">>

process_uploaded_file(f) ==
    IF ~f.exists
    THEN <<<<>>, MSG_FILE_NOT_FOUND>>
    ELSE IF f.size > MAX_FILE_SIZE
    THEN <<<<>>, MSG_TOO_LARGE_HEAD \o MegaBytes1f(f.size) \o MSG_TOO_LARGE_MID
                 \o MegaBytes1f(MAX_FILE_SIZE) \o MSG_TOO_LARGE_TAIL>>
    ELSE LET file_ext == Lower(SplitExt(f.name))
             failed   == <<<<>>, MSG_PROCESSING_FAILED
                                 \o Take(f.error, ERROR_DESCRIPTION_LENGTH)>>
         IN  IF file_ext \in SUPPORTED_TEXT_EXTENSIONS
             THEN IF f.raises THEN failed
                  ELSE <<f.content,
                         INFO_TEXT_HEAD \o f.name \o <<" ", "(">> \o Decimal(f.size)
                         \o INFO_TEXT_TAIL>>
             ELSE IF file_ext \in SUPPORTED_IMAGE_EXTENSIONS
             THEN IF f.raises THEN failed
                  ELSE LET size == Thumbnail(f.width, f.height)
                       IN  <<DATA_URI_HEAD \o Base64Payload,
                             INFO_IMAGE_HEAD \o f.name \o <<" ", "(">>
                             \o Decimal(size[1]) \o <<"x">> \o Decimal(size[2])
                             \o <<")">>>>
             ELSE <<<<>>, MSG_UNSUPPORTED_TYPE \o file_ext>>

---------------------------------------------------------------------------
(* Timestamps. *)

\* datetime.now().strftime("%H:%M:%S") at clock value t
get_timestamp(t) ==
    LET s == t
    IN  TwoDigits((s \div 3600) % 24) \o <<":">> \o TwoDigits((s \div 60) % 60)
        \o <<":">> \o TwoDigits(s % 60)

format_message_with_timestamp(content, role, t) ==
    IF role = "user"
    THEN STAMP_OPEN \o get_timestamp(t) \o STAMP_USER \o content
    ELSE STAMP_OPEN \o get_timestamp(t) \o STAMP_AI \o content

---------------------------------------------------------------------------
(* What the environment can supply. *)

\* the texts over alphabet of length at most n
Texts(alphabet, n) == UNION {[1..k -> alphabet] : k \in 0..n}

\* what the user submits in msg_textbox: nothing, blanks, a text
Messages == {<<>>, <<" ">>, <<"a">>}

\* n copies of c
Rep(c, n) == [i \in 1..n |-> c]

\* str(e) of the exceptions the collaborators raise: a short one, and one
\* longer than the [:100] cut
Exceptions == {<<"e", "r", "r">>, Rep("x", ERROR_DESCRIPTION_LENGTH + 1)}

File(exists, size, name, raises, content) ==
    [exists |-> exists, size |-> size, name |-> name, raises |-> raises,
     error |-> <<"e", "r", "r">>, content |-> content, width |-> 1600, height |-> 800]

Files ==
    { File(FALSE, 0, <<"a", ".", "t", "x", "t">>, FALSE, <<>>),
      File(TRUE, MAX_FILE_SIZE + 1, <<"a", ".", "t", "x", "t">>, FALSE, <<"b">>),
      File(TRUE, 1, <<"a", ".", "p", "d", "f">>, FALSE, <<>>),
      File(TRUE, 1, <<"A", ".", "T", "X", "T">>, FALSE, <<"b">>),
      File(TRUE, 1, <<"a", ".", "t", "x", "t">>, TRUE, <<>>),
      File(TRUE, 1, <<"a", ".", "p", "n", "g">>, FALSE, <<>>) }

\* the value of file_upload: <<>> is None, <<f>> an uploaded file
Uploads == {<<>>} \cup {<<f>> : f \in Files}

\* the text deltas a chunk can carry
Deltas == {<<>>, <<"a">>, <<"b", "c">>}

\* a chunk of the stream: delta is <<>> for content None, <<text>> otherwise
Chunks ==
    { [has_choices |-> FALSE, delta |-> <<>>],
      [has_choices |-> TRUE, delta |-> <<>>] }
    \cup {[has_choices |-> TRUE, delta |-> <<d>>] : d \in Deltas}

---------------------------------------------------------------------------
(* predict. *)

Turn(role, content) == [role |-> role, content |-> content]

\* file_content, file_info after the `if uploaded_file:` block's call
FileResult(f) == IF f # <<>> THEN process_uploaded_file(f[1]) ELSE <<<<>>, <<>>>>

\* if file_info and not file_content and "FAILED_MARK" in file_info
FileRejected(f) ==
    /\ f # <<>>
    /\ FileResult(f)[2] # <<>>
    /\ FileResult(f)[1] = <<>>
    /\ Contains(FileResult(f)[2], FAILED_MARK)

\* if not clean_message and not file_content
NothingToSend(m, f) == sanitize_input(m) = <<>> /\ FileResult(f)[1] = <<>>

\* clean_message after the `if file_content:` block
Compose(clean, file_content, file_info) ==
    IF file_content = <<>> THEN clean
    ELSE IF StartsWith(file_content, DATA_IMAGE_PREFIX)
    THEN IF clean # <<>>
         THEN clean \o IMAGE_NOTE_HEAD \o file_info \o <<"]">>
         ELSE IMAGE_ONLY_HEAD \o file_info \o IMAGE_ONLY_TAIL
    ELSE IF clean # <<>>
         THEN clean \o FILE_CONTENT_HEAD \o file_content
         ELSE FILE_ONLY_HEAD \o file_content

ComposedMessage(m, f) == Compose(sanitize_input(m), FileResult(f)[1], FileResult(f)[2])

\* history + [user turn, assistant turn]: the snapshot of an early exit
EarlySnapshot(h, user_content, assistant_content) ==
    h \o <<Turn("user", user_content), Turn("assistant", assistant_content)>>

\* the dispatch failure reported after the empty assistant placeholder
DispatchFailureAfterPlaceholder(clean_h, clean_m, e) ==
    clean_h \o <<Turn("user", clean_m), Turn("assistant", <<>>),
                 Turn("assistant", MSG_API_FAILED \o Take(e, ERROR_DESCRIPTION_LENGTH)
                                   \o ELLIPSIS)>>

\* the snapshot of the `except` around client.chat.completions.create
DispatchFailureSnapshot(clean_h, clean_m, e) ==
    clean_h \o <<Turn("user", clean_m),
                 Turn("assistant", MSG_API_FAILED \o Take(e, ERROR_DESCRIPTION_LENGTH)
                                   \o ELLIPSIS)>>

\* clean_history.extend([user turn with timestamp, empty assistant turn])
ExtendForStream(clean_h, clean_m, t) ==
    clean_h \o <<Turn("user", format_message_with_timestamp(clean_m, "user", t)),
                 Turn("assistant", <<>>)>>

\* clean_history[-1]["content"] = content
SetLastContent(h, content) == [h EXCEPT ![Len(h)].content = content]

\* the delta put in front of the accumulator
AccumulatePrepend(response, content) == content \o response

\* bot_response += content
Accumulate(response, content) == response \o content

\* the call of predict: the generator is created and run to its first
\* suspension or its end
Invoke(m, f) ==
    /\ pc \in {"idle", "returned"}
    /\ invocations < MaxInvocations
    /\ invocations' = invocations + 1
    /\ message' = m
    /\ uploaded_file' = f
    /\ taken' = 0
    /\ received' = <<>>
    /\ bot_response' = <<>>
    /\ UNCHANGED <<client, now>>

\* an exit before the first yield of the streaming loop
Exit(name, snapshot, calls) ==
    /\ pc' = "returned"
    /\ branch' = name
    /\ chatbot' = snapshot
    /\ yields' = 1
    /\ api_calls' = calls

PredictNoClient ==
    \E m \in Messages, f \in Uploads :
        /\ Invoke(m, f)
        /\ ~client
        /\ Exit("no_client", EarlySnapshot(chatbot, m, MSG_NO_CLIENT), 0)
        /\ clean_message' = <<>>
        /\ clean_history' = <<>>
        /\ UNCHANGED last_request_time

PredictRateLimited ==
    \E m \in Messages, f \in Uploads :
        /\ Invoke(m, f)
        /\ client
        /\ TooSoon(now, last_request_time)
        /\ Exit("rate_limited", EarlySnapshot(chatbot, m, MSG_RATE_LIMITED), 0)
        /\ last_request_time' = RateLimitStamp(now, last_request_time)
        /\ clean_message' = <<>>
        /\ clean_history' = <<>>

PredictFileError ==
    \E m \in Messages, f \in Uploads :
        /\ Invoke(m, f)
        /\ client
        /\ ~TooSoon(now, last_request_time)
        /\ FileRejected(f)
        /\ Exit("file_error",
                EarlySnapshot(chatbot, m, MSG_FILE_ERROR_HEAD \o FileResult(f)[2]), 0)
        /\ last_request_time' = RateLimitStamp(now, last_request_time)
        /\ clean_message' = <<>>
        /\ clean_history' = <<>>

PredictEmptyInput ==
    \E m \in Messages, f \in Uploads :
        /\ Invoke(m, f)
        /\ client
        /\ ~TooSoon(now, last_request_time)
        /\ ~FileRejected(f)
        /\ NothingToSend(m, f)
        /\ Exit("empty_input", EarlySnapshot(chatbot, <<>>, MSG_EMPTY_INPUT), 0)
        /\ last_request_time' = RateLimitStamp(now, last_request_time)
        /\ clean_message' = sanitize_input(m)
        /\ clean_history' = <<>>

\* client.chat.completions.create raises e
PredictDispatchFailed ==
    \E m \in Messages, f \in Uploads, e \in Exceptions :
        /\ Invoke(m, f)
        /\ client
        /\ ~TooSoon(now, last_request_time)
        /\ ~FileRejected(f)
        /\ ~NothingToSend(m, f)
        /\ Exit("dispatch_failed",
                DispatchFailureSnapshot(validate_history(chatbot), ComposedMessage(m, f), e),
                1)
        /\ last_request_time' = RateLimitStamp(now, last_request_time)
        /\ clean_message' = ComposedMessage(m, f)
        /\ clean_history' = validate_history(chatbot)

\* client.chat.completions.create returns a stream; the generator has not
\* yielded yet and waits for the first chunk
PredictDispatched ==
    \E m \in Messages, f \in Uploads :
        /\ Invoke(m, f)
        /\ client
        /\ ~TooSoon(now, last_request_time)
        /\ ~FileRejected(f)
        /\ ~NothingToSend(m, f)
        /\ pc' = "streaming"
        /\ branch' = "streaming"
        /\ yields' = 0
        /\ api_calls' = 1
        /\ last_request_time' = RateLimitStamp(now, last_request_time)
        /\ clean_message' = ComposedMessage(m, f)
        /\ clean_history' = ExtendForStream(validate_history(chatbot), ComposedMessage(m, f), now)
        /\ UNCHANGED chatbot

StreamUnchanged ==
    UNCHANGED <<client, now, last_request_time, invocations, message,
                uploaded_file, clean_message, api_calls>>

\* one iteration of `for chunk in stream` on a chunk without a text delta
StreamSkip ==
    \E chunk \in Chunks :
        /\ pc = "streaming"
        /\ taken < MaxStream
        /\ ~chunk.has_choices \/ chunk.delta = <<>>
        /\ taken' = taken + 1
        /\ StreamUnchanged
        /\ UNCHANGED <<chatbot, pc, branch, clean_history, bot_response, received, yields>>

\* one iteration on a chunk with a text delta that fits: the snapshot is yielded
StreamYield ==
    \E chunk \in Chunks :
        /\ pc = "streaming"
        /\ taken < MaxStream
        /\ chunk.has_choices /\ chunk.delta # <<>>
        /\ Len(Accumulate(bot_response, chunk.delta[1])) <= MAX_MESSAGE_LENGTH
        /\ taken' = taken + 1
        /\ received' = Append(received, chunk.delta[1])
        /\ bot_response' = Accumulate(bot_response, chunk.delta[1])
        /\ clean_history' =
               SetLastContent(clean_history,
                              format_message_with_timestamp(bot_response', "assistant", now))
        /\ chatbot' = clean_history'
        /\ yields' = yields + 1
        /\ StreamUnchanged
        /\ UNCHANGED <<pc, branch>>

\* one iteration on a chunk whose delta takes bot_response over the limit:
\* bot_response is cut and the loop left, with no yield
StreamTruncate ==
    \E chunk \in Chunks :
        /\ pc = "streaming"
        /\ taken < MaxStream
        /\ chunk.has_choices /\ chunk.delta # <<>>
        /\ Len(Accumulate(bot_response, chunk.delta[1])) > MAX_MESSAGE_LENGTH
        /\ taken' = taken + 1
        /\ received' = Append(received, chunk.delta[1])
        /\ bot_response' =
               Take(Accumulate(bot_response, chunk.delta[1]), MAX_MESSAGE_LENGTH) \o ELLIPSIS
        /\ pc' = "returned"
        /\ branch' = "truncated"
        /\ StreamUnchanged
        /\ UNCHANGED <<chatbot, clean_history, yields>>

\* the stream is exhausted: the loop and the generator end
StreamEnd ==
    /\ pc = "streaming"
    /\ pc' = "returned"
    /\ branch' = "completed"
    /\ StreamUnchanged
    /\ UNCHANGED <<chatbot, clean_history, bot_response, taken, received, yields>>

\* iterating the stream raises e: the `except` of the loop
StreamFail ==
    \E e \in Exceptions :
        /\ pc = "streaming"
        /\ clean_history' =
               SetLastContent(clean_history,
                   format_message_with_timestamp(
                       MSG_STREAM_FAILED \o Take(e, ERROR_DESCRIPTION_LENGTH) \o ELLIPSIS,
                       "assistant", now))
        /\ chatbot' = clean_history'
        /\ yields' = yields + 1
        /\ pc' = "returned"
        /\ branch' = "stream_failed"
        /\ StreamUnchanged
        /\ UNCHANGED <<bot_response, taken, received>>

\* the clock advances
Tick ==
    /\ now < LastTick
    /\ now' = now + 1
    /\ UNCHANGED <<client, last_request_time, chatbot, pc, branch, invocations,
                   message, uploaded_file, clean_message, clean_history,
                   bot_response, taken, received, yields, api_calls>>

\* the module-level state after import, and no invocation of predict yet
Fresh ==
    /\ now = BootTime
    /\ last_request_time = 0
    /\ pc = "idle"
    /\ branch = "none"
    /\ invocations = 0
    /\ uploaded_file = <<>>
    /\ clean_message = <<>>
    /\ clean_history = <<>>
    /\ bot_response = <<>>
    /\ taken = 0
    /\ received = <<>>
    /\ yields = 0
    /\ api_calls = 0

\* OpenAI(...) either succeeded or raised and left client = None
Init == client \in BOOLEAN /\ Fresh /\ chatbot = <<>> /\ message = <<>>

Next ==
    \/ PredictNoClient
    \/ PredictRateLimited
    \/ PredictFileError
    \/ PredictEmptyInput
    \/ PredictDispatchFailed
    \/ PredictDispatched
    \/ StreamSkip
    \/ StreamYield
    \/ StreamTruncate
    \/ StreamEnd
    \/ StreamFail
    \/ Tick

Spec == Init /\ [][Next]_vars

---------------------------------------------------------------------------
(* sanitize_input and validate_history on their own: the argument is drawn *)
(* at the start and the function applied to it once.  The argument of      *)
(* sanitize_input is held in `message`, its result in `clean_message`; the *)
(* argument of validate_history in `chatbot`, its result in                *)
(* `clean_history`.                                                        *)

\* a history item that is not a dict with both keys
Malformed == [role |-> "user"]

HistoryItems ==
    { Turn("user", <<"a">>), Turn("user", <<" ">>), Turn("user", <<"<">>),
      Turn("assistant", <<>>), Turn("assistant", <<"b", "c", "d", "e">>),
      Malformed }

\* the histories of length at most n
Histories(n) == UNION {[1..k -> HistoryItems] : k \in 0..n}

Call(name) ==
    /\ pc = "idle"
    /\ pc' = "returned"
    /\ branch' = name
    /\ UNCHANGED <<client, now, last_request_time, invocations, message, chatbot,
                   uploaded_file, bot_response, taken, received, yields, api_calls>>

SanitizeCall ==
    /\ Call("sanitize_input")
    /\ clean_message' = sanitize_input(message)
    /\ UNCHANGED clean_history

ValidateCall ==
    /\ Call("validate_history")
    /\ clean_history' = validate_history(chatbot)
    /\ UNCHANGED clean_message

InitSanitize ==
    /\ client = TRUE /\ Fresh /\ chatbot = <<>>
    /\ message \in Texts({"a", " ", "<"}, MaxTextLen)

InitValidate ==
    /\ client = TRUE /\ Fresh /\ message = <<>>
    /\ chatbot \in Histories(MaxHistoryLen)

SpecSanitize == InitSanitize /\ [][SanitizeCall]_vars

SpecValidate == InitValidate /\ [][ValidateCall]_vars

---------------------------------------------------------------------------
(* Reading a transcript. *)

Last(s) == s[Len(s)]

\* the concatenation of the texts of a sequence of texts, in order
RECURSIVE Flatten(_)
Flatten(ss) == IF ss = <<>> THEN <<>> ELSE Head(ss) \o Flatten(Tail(ss))

\* an assistant turn's content with its timestamp prefix removed: what
\* follows the first STAMP_AI of a content that starts with STAMP_OPEN
StampStripped(content) ==
    IF StartsWith(content, STAMP_OPEN) /\ Contains(content, STAMP_AI)
    THEN LET at == CHOOSE i \in 1..Len(content) :
                       /\ SubSeq(content, i, i + Len(STAMP_AI) - 1) = STAMP_AI
                       /\ \A j \in 1..(i - 1) :
                              SubSeq(content, j, j + Len(STAMP_AI) - 1) # STAMP_AI
         IN  Drop(content, at + Len(STAMP_AI) - 1)
    ELSE content

\* file_info is one of the four error descriptions of process_uploaded_file
IsErrorDescription(info) ==
    \/ info = MSG_FILE_NOT_FOUND
    \/ StartsWith(info, MSG_TOO_LARGE_HEAD)
    \/ StartsWith(info, MSG_UNSUPPORTED_TYPE)
    \/ StartsWith(info, MSG_PROCESSING_FAILED)

\* the step is the call of predict (and its run to the first suspension)
IsInvocation == invocations' = invocations + 1

---------------------------------------------------------------------------
(* C1.  As claimed: a call of predict with a message that sanitizes to      *)
(* empty and no attachment, the client being available, yields exactly one *)
(* snapshot whose last turn is the prompt-for-input turn, calls the remote *)
(* endpoint not at all and leaves last_request_time as it was.             *)

EmptyCall ==
    /\ IsInvocation
    /\ client
    /\ sanitize_input(message') = <<>>
    /\ uploaded_file' = <<>>

C1_AsClaimed ==
    [][EmptyCall =>
          /\ yields' = 1
          /\ pc' = "returned"
          /\ Last(chatbot') = Turn("assistant", MSG_EMPTY_INPUT)
          /\ api_calls' = 0
          /\ last_request_time' = last_request_time]_vars

(* C1, amended.  Such a call yields exactly one snapshot and calls the      *)
(* remote endpoint not at all; the rate limiter is consulted first, so     *)
(* when at least RATE_LIMIT_DELAY has passed since last_request_time the   *)
(* last turn is the prompt-for-input turn and last_request_time becomes    *)
(* the time of the call, and otherwise the last turn is the too-frequent   *)
(* turn and last_request_time is left as it was.                           *)
C1_EmptyInput ==
    [][EmptyCall =>
          /\ yields' = 1
          /\ pc' = "returned"
          /\ api_calls' = 0
          /\ IF now - last_request_time >= RATE_LIMIT_DELAY
             THEN /\ Last(chatbot') = Turn("assistant", MSG_EMPTY_INPUT)
                  /\ last_request_time' = now
             ELSE /\ Last(chatbot') = Turn("assistant", MSG_RATE_LIMITED)
                  /\ last_request_time' = last_request_time]_vars

\* a blank message without attachment was answered by the prompt, on a
\* second call that came the delay after the first
C1_Witness ==
    /\ branch = "empty_input"
    /\ pc = "returned"
    /\ message = <<" ">>
    /\ uploaded_file = <<>>
    /\ invocations = 2
    /\ last_request_time = BootTime + RATE_LIMIT_DELAY
    /\ Last(chatbot) = Turn("assistant", MSG_EMPTY_INPUT)

---------------------------------------------------------------------------
(* C2.  Whenever predict hands an attachment to process_uploaded_file and   *)
(* that reports an error (empty content and an error description), the     *)
(* invocation ends with a single snapshot whose last turn is the file      *)
(* error turn, and the remote endpoint is not called, whatever the text.   *)

ProcessorReportsError ==
    /\ client
    /\ branch \notin {"none", "no_client", "rate_limited", "sanitize_input",
                      "validate_history"}
    /\ uploaded_file # <<>>
    /\ FileResult(uploaded_file)[1] = <<>>
    /\ IsErrorDescription(FileResult(uploaded_file)[2])

C2_AttachmentErrorIsTerminal ==
    ProcessorReportsError =>
        /\ branch = "file_error"
        /\ pc = "returned"
        /\ yields = 1
        /\ api_calls = 0
        /\ Last(chatbot) =
               Turn("assistant", MSG_FILE_ERROR_HEAD \o FileResult(uploaded_file)[2])

---------------------------------------------------------------------------
(* C3.  At every call of rate_limit_check (the clock never goes back) the   *)
(* call is accepted if and only if at least RATE_LIMIT_DELAY has passed    *)
(* since last_request_time, the time of the last accepted call; an         *)
(* accepted call sets last_request_time to the current time and a rejected *)
(* one leaves it as it was.  Hence a call sooner than the delay after an   *)
(* accepted one is rejected, and one the delay or more after it accepted.  *)

\* predict calls rate_limit_check in this step
RateLimitChecked == IsInvocation /\ client

C3_RateLimiter ==
    /\ [][now' >= now]_vars
    /\ [][RateLimitChecked =>
             /\ (branch' # "rate_limited") <=> (now - last_request_time >= RATE_LIMIT_DELAY)
             /\ branch' # "rate_limited" => last_request_time' = now
             /\ branch' = "rate_limited" => last_request_time' = last_request_time]_vars

\* a second call came one second after the first, sooner than the delay,
\* and was rejected: the timestamp is still that of the first
C3_Witness ==
    /\ branch = "rate_limited"
    /\ invocations = 2
    /\ now = BootTime + 1
    /\ last_request_time = BootTime

---------------------------------------------------------------------------
(* C4.  Every snapshot predict yields holds at most MAX_HISTORY_LENGTH      *)
(* messages (chatbot is the last snapshot yielded, fed back as the next    *)
(* call's history).                                                        *)

C4_SnapshotWithinWindow == Len(chatbot) <= MAX_HISTORY_LENGTH

---------------------------------------------------------------------------
(* C5.  While the accumulated text stays within MAX_MESSAGE_LENGTH, the     *)
(* streaming loop has yielded exactly one snapshot per chunk that carried  *)
(* a text delta (none for a chunk without choices or with a null delta),   *)
(* and the last turn of the latest snapshot is the assistant turn whose    *)
(* content, timestamp prefix removed, is the concatenation of the deltas   *)
(* received so far, in arrival order.                                      *)

C5_StreamingFold ==
    branch \in {"streaming", "completed"} =>
        /\ yields = Len(received)
        /\ Len(received) <= taken
        /\ yields > 0 =>
               /\ Last(chatbot).role = "assistant"
               /\ StampStripped(Last(chatbot).content) = Flatten(received)

\* two deltas, "a" then "bc", have been folded and a second snapshot yielded
C5_Witness ==
    /\ branch = "streaming"
    /\ yields = 2
    /\ received = <<<<"a">>, <<"b", "c">>>>
    /\ StampStripped(Last(chatbot).content) = <<"a", "b", "c">>

---------------------------------------------------------------------------
(* C6.  When client.chat.completions.create raises, predict yields exactly  *)
(* one snapshot and returns: the snapshot is the windowed history followed *)
(* by the user turn and one assistant turn, the last, which carries the    *)
(* failure description cut to ERROR_DESCRIPTION_LENGTH; no assistant turn  *)
(* with empty content is added, the endpoint was called once, and no       *)
(* further snapshot follows.                                               *)

Assistants(h) == {i \in 1..Len(h) : h[i].role = "assistant"}

EmptyAssistants(h) == {i \in Assistants(h) : h[i].content = <<>>}

C6_DispatchFailure ==
    /\ [](branch = "dispatch_failed" => pc = "returned" /\ yields = 1 /\ api_calls = 1)
    /\ [][(IsInvocation /\ branch' = "dispatch_failed") =>
             LET windowed == validate_history(chatbot)
             IN  /\ Len(chatbot') = Len(windowed) + 2
                 /\ SubSeq(chatbot', 1, Len(windowed)) = windowed
                 /\ Cardinality(Assistants(chatbot')) =
                        Cardinality(Assistants(windowed)) + 1
                 /\ Cardinality(EmptyAssistants(chatbot')) =
                        Cardinality(EmptyAssistants(windowed))
                 /\ Last(chatbot').role = "assistant"
                 /\ \E e \in Exceptions :
                        /\ Last(chatbot').content =
                               MSG_API_FAILED \o Take(e, ERROR_DESCRIPTION_LENGTH)
                               \o ELLIPSIS
                        /\ Len(Last(chatbot').content) <=
                               Len(MSG_API_FAILED) + ERROR_DESCRIPTION_LENGTH
                               + Len(ELLIPSIS)]_vars

\* the second call failed at dispatch with the long description, on top of
\* the two turns of the first call
C6_Witness ==
    /\ branch = "dispatch_failed"
    /\ pc = "returned"
    /\ invocations = 2
    /\ Len(chatbot) = 4
    /\ Len(Last(chatbot).content) =
           Len(MSG_API_FAILED) + ERROR_DESCRIPTION_LENGTH + Len(ELLIPSIS)

---------------------------------------------------------------------------
(* C7.  As claimed: for a history longer than MAX_HISTORY_LENGTH,           *)
(* validate_history returns exactly MAX_HISTORY_LENGTH entries, the most   *)
(* recent ones of the input in their order.                                *)

ValidateReturned == branch = "validate_history" /\ Len(chatbot) > MAX_HISTORY_LENGTH

\* the most recent MAX_HISTORY_LENGTH entries of the argument
MostRecent == [i \in 1..MAX_HISTORY_LENGTH |-> chatbot[Len(chatbot) - MAX_HISTORY_LENGTH + i]]

C7_AsClaimed ==
    ValidateReturned =>
        /\ Len(clean_history) = MAX_HISTORY_LENGTH
        /\ clean_history = MostRecent

(* C7, amended.  For a history longer than MAX_HISTORY_LENGTH,              *)
(* validate_history returns, of the most recent MAX_HISTORY_LENGTH entries *)
(* and in their order, those that have a role and a content and are       *)
(* assistant entries or have a non-empty sanitized content, each with its  *)
(* role and its sanitized content: at most MAX_HISTORY_LENGTH entries, and *)
(* exactly that many when none of the most recent entries is dropped.      *)

Kept(item) ==
    /\ "role" \in DOMAIN item
    /\ "content" \in DOMAIN item
    /\ item.role = "assistant" \/ sanitize_input(item.content) # <<>>

\* the positions among the most recent entries that are kept
KeptPositions == {i \in 1..MAX_HISTORY_LENGTH : Kept(MostRecent[i])}

\* the k-th smallest element of a set of numbers
Nth(S, k) == CHOOSE i \in S : Cardinality({j \in S : j < i}) = k - 1

C7_ValidateHistory ==
    ValidateReturned =>
        /\ Len(clean_history) = Cardinality(KeptPositions)
        /\ Len(clean_history) <= MAX_HISTORY_LENGTH
        /\ \A k \in 1..Len(clean_history) :
               LET item == MostRecent[Nth(KeptPositions, k)]
               IN  clean_history[k] = Turn(item.role, sanitize_input(item.content))

\* a history of four entries, the last two kept, one of them escaped
C7_Witness ==
    /\ ValidateReturned
    /\ Len(chatbot) = 4
    /\ chatbot[1] = Turn("user", <<"a">>)
    /\ clean_history = <<Turn("user", <<"&", "l", "t", ".", ".", ".">>), Turn("assistant", <<>>)>>

---------------------------------------------------------------------------
(* C8.  As claimed: for a text longer than MAX_MESSAGE_LENGTH,              *)
(* sanitize_input returns a text of MAX_MESSAGE_LENGTH + 3 characters that *)
(* ends with "...".                                                        *)

SanitizeReturned == branch = "sanitize_input"

EndsWithMarker(text) ==
    /\ Len(text) >= Len(ELLIPSIS)
    /\ SubSeq(text, Len(text) - Len(ELLIPSIS) + 1, Len(text)) = ELLIPSIS

Truncated(text) ==
    Len(text) = MAX_MESSAGE_LENGTH + Len(ELLIPSIS) /\ EndsWithMarker(text)

C8_AsClaimed ==
    (SanitizeReturned /\ Len(message) > MAX_MESSAGE_LENGTH) => Truncated(clean_message)

(* C8, amended.  For a text that is longer than MAX_MESSAGE_LENGTH once     *)
(* its leading and trailing white space is removed, sanitize_input returns *)
(* a text of MAX_MESSAGE_LENGTH + 3 characters that ends with "...".       *)

\* the number of characters between the first and the last that is not
\* white space, both included
InkSpan(text) ==
    LET inked == {i \in 1..Len(text) : ~IsSpace(text[i])}
    IN  IF inked = {} THEN 0
        ELSE (CHOOSE i \in inked : \A j \in inked : j <= i)
             - (CHOOSE i \in inked : \A j \in inked : i <= j) + 1

C8_Sanitize ==
    (SanitizeReturned /\ InkSpan(message) > MAX_MESSAGE_LENGTH) => Truncated(clean_message)

\* a text of five characters, four without the leading blank, was cut
C8_Witness ==
    /\ SanitizeReturned
    /\ message = <<" ", "a", "a", "<", "a">>
    /\ clean_message = <<"a", "a", "&", ".", ".", ".">>

---------------------------------------------------------------------------
(* C9.  When a delta takes the accumulated response over                   *)
(* MAX_MESSAGE_LENGTH, no further chunk is taken and the invocation ends   *)
(* with the assistant turn of the last snapshot holding, timestamp prefix  *)
(* removed, the final value of the accumulator: the response cut to        *)
(* MAX_MESSAGE_LENGTH and followed by "...".                               *)

C9_TruncatedResponseShown ==
    branch = "truncated" =>
        /\ pc = "returned"
        /\ bot_response = Take(Flatten(received), MAX_MESSAGE_LENGTH) \o ELLIPSIS
        /\ yields > 0
        /\ Last(chatbot).role = "assistant"
        /\ StampStripped(Last(chatbot).content) = bot_response

---------------------------------------------------------------------------
(* C10.  Every invocation of predict that has ended has yielded at least    *)
(* one snapshot, and after a successful dispatch the user turn appended to *)
(* the transcript is in the last snapshot.                                 *)

C10_AtLeastOneSnapshot ==
    (pc = "returned" /\ branch \notin {"sanitize_input", "validate_history"}) =>
        /\ yields >= 1
        /\ branch \in {"completed", "truncated", "stream_failed"} =>
               /\ Len(chatbot) >= 2
               /\ chatbot[Len(chatbot) - 1] = clean_history[Len(clean_history) - 1]

=============================================================================
